---- MODULE Spec2Model ----
(***************************************************************************)
(* ADX pipeline of adxapp/utils.py (revision 20251203183542):              *)
(* detect_ohlc_columns, wilder_sum_excel_style and calculate_adx.          *)
(*                                                                         *)
(* A pandas float is modelled as a decimal fixed-point number: a record    *)
(* [k, v] whose kind k is "num" (v = value * Scale), "nan" or "inf"        *)
(* (v = sign).  Every arithmetic operator rounds its result to FracDigits  *)
(* decimals (ties to even), in the order in which the code applies its     *)
(* floating-point operations.  DataFrame.round(6) keeps fewer decimals     *)
(* than the working precision; here it keeps RoundDigits of FracDigits.    *)
(***************************************************************************)
EXTENDS Integers, Sequences, FiniteSets, TLC

VARIABLES input_df, df, pc, ohlc_map, date_col, result, error, session, log

vars == <<input_df, df, pc, ohlc_map, date_col, result, error, session, log>>

\* the variables of one run of calculate_adx, and those of the web session
calc == <<input_df, df, pc, ohlc_map, date_col, result, error>>
web == <<session, log>>

\* utils.py line 57: N = 14
N == 14

\* Bounds of the model.
FracDigits == 4
RoundDigits == 2
MaxRows == 30

RECURSIVE Pow10(_)
Pow10(d) == IF d = 0 THEN 1 ELSE 10 * Pow10(d - 1)

Scale == Pow10(FracDigits)

(***************************************************************************)
(* Floating-point values                                                   *)
(***************************************************************************)
Num(x) == [k |-> "num", v |-> x]
NaN == [k |-> "nan", v |-> 0]
Inf(s) == [k |-> "inf", v |-> s]
FromInt(i) == Num(i * Scale)

IsNaN(a) == a.k = "nan"
IsNum(a) == a.k = "num"
IsInf(a) == a.k = "inf"
NotNa(a) == a.k # "nan"

Sign(x) == IF x < 0 THEN -1 ELSE 1
Abs(x) == IF x < 0 THEN -x ELSE x

FNeg(a) == IF IsNaN(a) THEN NaN ELSE [k |-> a.k, v |-> -a.v]

FAdd(a, b) ==
    IF IsNaN(a) \/ IsNaN(b) THEN NaN
    ELSE IF IsInf(a) /\ IsInf(b) THEN (IF a.v = b.v THEN a ELSE NaN)
    ELSE IF IsInf(a) THEN a
    ELSE IF IsInf(b) THEN b
    ELSE Num(a.v + b.v)

FSub(a, b) == FAdd(a, FNeg(b))

FAbs(a) == IF IsNaN(a) THEN NaN ELSE [k |-> a.k, v |-> Abs(a.v)]

\* a * n for an integer scalar n > 0
FMulInt(a, n) == IF IsNum(a) THEN Num(a.v * n) ELSE a

\* Long division: FracDigits more decimal digits of quot + rem/q.
RECURSIVE LongDiv(_, _, _, _)
LongDiv(quot, rem, q, d) ==
    IF d = 0 THEN <<quot, rem>>
    ELSE LongDiv(quot * 10 + ((rem * 10) \div q), (rem * 10) % q, q, d - 1)

\* p / q in fixed point for p >= 0, q > 0, rounded to nearest, ties to even
QuotRound(p, q) ==
    LET r == LongDiv(p \div q, p % q, q, FracDigits)
    IN  IF 2 * r[2] > q \/ (2 * r[2] = q /\ r[1] % 2 = 1) THEN r[1] + 1 ELSE r[1]

FDiv(a, b) ==
    IF IsNaN(a) \/ IsNaN(b) THEN NaN
    ELSE IF IsInf(a) THEN (IF IsInf(b) THEN NaN ELSE Inf(a.v * Sign(b.v)))
    ELSE IF IsInf(b) THEN Num(0)
    ELSE IF b.v = 0 THEN (IF a.v = 0 THEN NaN ELSE Inf(Sign(a.v)))
    ELSE Num(Sign(a.v) * Sign(b.v) * QuotRound(Abs(a.v), Abs(b.v)))

\* a > b as numpy compares floats: False when either side is NaN
FGt(a, b) ==
    IF IsNaN(a) \/ IsNaN(b) THEN FALSE
    ELSE IF IsInf(a) THEN a.v = 1 /\ ~(IsInf(b) /\ b.v = 1)
    ELSE IF IsInf(b) THEN b.v = -1
    ELSE a.v > b.v

\* max of two floats skipping NaN (DataFrame.max, skipna=True)
FMaxSkipNa(a, b) ==
    IF IsNaN(a) THEN b ELSE IF IsNaN(b) THEN a ELSE IF FGt(b, a) THEN b ELSE a

\* round to RoundDigits decimals, ties to even
RoundFloat(a) ==
    IF ~IsNum(a) THEN a
    ELSE LET unit == Pow10(FracDigits - RoundDigits)
             m    == Abs(a.v)
             q    == m \div unit
             r    == m % unit
             up   == 2 * r > unit \/ (2 * r = unit /\ q % 2 = 1)
         IN  Num(Sign(a.v) * unit * (IF up THEN q + 1 ELSE q))

(***************************************************************************)
(* Series (a column): a sequence indexed 1..Len; row i of the code is      *)
(* element i+1.                                                            *)
(***************************************************************************)
At(s, i) == s[i + 1]

\* Series.shift(1)
Shift1(s) == [j \in 1..Len(s) |-> IF j = 1 THEN NaN ELSE s[j - 1]]

\* Series.fillna(0)
FillNa0(s) == [j \in 1..Len(s) |-> IF IsNaN(s[j]) THEN Num(0) ELSE s[j]]

\* np.nansum(arr[lo:hi]) with 0-based half-open bounds
RECURSIVE NanSum(_, _, _)
NanSum(arr, lo, hi) ==
    IF lo >= hi \/ lo >= Len(arr) THEN Num(0)
    ELSE FAdd(IF IsNaN(At(arr, lo)) THEN Num(0) ELSE At(arr, lo), NanSum(arr, lo + 1, hi))

(***************************************************************************)
(* Input cells and header names                                            *)
(***************************************************************************)
\* A cell of the caller's table: an integer, a float (v = value * Scale) or a
\* text.
IntCell(x) == [k |-> "int", v |-> x, s |-> <<>>]
FloatCell(x) == [k |-> "num", v |-> x, s |-> <<>>]
TextCell(t) == [k |-> "str", v |-> 0, s |-> t]

\* pd.to_numeric(errors='coerce') on one cell
to_numeric(c) == IF c.k = "int" THEN FromInt(c.v) ELSE IF c.k = "num" THEN Num(c.v) ELSE NaN

\* The characters of the header names the model uses.
Chars(h) ==
    CASE h = "Date"     -> <<"D", "a", "t", "e">>
      [] h = "Open"     -> <<"O", "p", "e", "n">>
      [] h = "High"     -> <<"H", "i", "g", "h">>
      [] h = "Low"      -> <<"L", "o", "w">>
      [] h = "Close"    -> <<"C", "l", "o", "s", "e">>
      [] h = "OPEN"     -> <<"O", "P", "E", "N">>
      [] h = "o"        -> <<"o">>
      [] h = "h"        -> <<"h">>
      [] h = "l"        -> <<"l">>
      [] h = "c"        -> <<"c">>
      [] h = "Volume"   -> <<"V", "o", "l", "u", "m", "e">>
      [] h = "AdjClose" -> <<"A", "d", "j", "C", "l", "o", "s", "e">>
      [] h = "DayHigh"  -> <<"D", "a", "y", "H", "i", "g", "h">>
      [] h = "DayLow"   -> <<"D", "a", "y", "L", "o", "w">>
      [] h = "Time"     -> <<"T", "i", "m", "e">>
      [] h = "TR"       -> <<"T", "R">>
      [] h = "DAYHIGH"  -> <<"D", "A", "Y", "H", "I", "G", "H">>
      [] h = "HighLow"  -> <<"H", "i", "g", "h", "L", "o", "w">>
      [] h = "TR14"    -> <<"T", "R", "1", "4">>
      [] h = "+DM 1"   -> <<"+", "D", "M", " ", "1">>
      [] h = "-DM 1"   -> <<"-", "D", "M", " ", "1">>
      [] h = "+DM14"   -> <<"+", "D", "M", "1", "4">>
      [] h = "-DM14"   -> <<"-", "D", "M", "1", "4">>
      [] h = "+DI14"   -> <<"+", "D", "I", "1", "4">>
      [] h = "-DI14"   -> <<"-", "D", "I", "1", "4">>
      [] h = "DI 14 Diff" -> <<"D", "I", " ", "1", "4", " ", "D", "i", "f", "f">>
      [] h = "DI 14 Sum" -> <<"D", "I", " ", "1", "4", " ", "S", "u", "m">>
      [] h = "DX"      -> <<"D", "X">>
      [] h = "ADX"     -> <<"A", "D", "X">>

UpperLetters == <<"A", "B", "C", "D", "E", "F", "G", "H", "I", "J", "K", "L", "M",
                  "N", "O", "P", "Q", "R", "S", "T", "U", "V", "W", "X", "Y", "Z">>
LowerLetters == <<"a", "b", "c", "d", "e", "f", "g", "h", "i", "j", "k", "l", "m",
                  "n", "o", "p", "q", "r", "s", "t", "u", "v", "w", "x", "y", "z">>

LowerChar(ch) ==
    IF \E j \in 1..26 : UpperLetters[j] = ch
    THEN LowerLetters[CHOOSE j \in 1..26 : UpperLetters[j] = ch]
    ELSE ch

\* str.lower()
StrLower(cs) == [j \in 1..Len(cs) |-> LowerChar(cs[j])]

\* needle in hay (substring test on character sequences)
Contains(hay, needle) ==
    \E st \in 0..(Len(hay) - Len(needle)) :
        \A j \in 1..Len(needle) : hay[st + j] = needle[j]

None == "<None>"

(***************************************************************************)
(* detect_ohlc_columns                                                     *)
(***************************************************************************)
\* lower = {c.lower(): c for c in df.columns} as the list of its items in
\* dict order: a key keeps the position of its first insertion and the
\* value of its last.
RECURSIVE LowerDict(_, _)
LowerDict(columns, acc) ==
    IF columns = <<>> THEN acc
    ELSE LET c  == Head(columns)
             lk == StrLower(Chars(c))
             at == {j \in 1..Len(acc) : acc[j][1] = lk}
         IN  LowerDict(Tail(columns),
                       IF at = {} THEN Append(acc, <<lk, c>>)
                       ELSE [acc EXCEPT ![CHOOSE j \in at : TRUE] = <<lk, c>>])

DictHas(lower, key) == \E j \in 1..Len(lower) : lower[j][1] = key
DictGet(lower, key) == lower[CHOOSE j \in 1..Len(lower) : lower[j][1] = key][2]

\* lines 42-52 for one key with its options opts
\* A variant of the lookup without the substring fallback.
DetectOneExact(lower, key, opts) ==
    LET hits == {j \in 1..Len(opts) : DictHas(lower, opts[j])}
        Min(S) == CHOOSE x \in S : \A y \in S : x <= y
    IN  IF hits # {} THEN DictGet(lower, opts[Min(hits)]) ELSE None

DetectOne(lower, key, opts) ==
    LET hits == {j \in 1..Len(opts) : DictHas(lower, opts[j])}
        subs == {j \in 1..Len(lower) : Contains(lower[j][1], key)}
        Min(S) == CHOOSE x \in S : \A y \in S : x <= y
    IN  IF hits # {} THEN DictGet(lower, opts[Min(hits)])
        ELSE IF subs # {} THEN lower[Min(subs)][2]
        ELSE None

detect_ohlc_columns(columns) ==
    LET lower == LowerDict(columns, <<>>)
    IN  [open  |-> DetectOne(lower, <<"o", "p", "e", "n">>, << <<"o", "p", "e", "n">>, <<"o">> >>),
         high  |-> DetectOne(lower, <<"h", "i", "g", "h">>, << <<"h", "i", "g", "h">>, <<"h">> >>),
         low   |-> DetectOne(lower, <<"l", "o", "w">>, << <<"l", "o", "w">>, <<"l">> >>),
         close |-> DetectOne(lower, <<"c", "l", "o", "s", "e">>, << <<"c", "l", "o", "s", "e">>, <<"c">> >>)]

\* candidates.items() order
Keys == <<"open", "high", "low", "close">>

(***************************************************************************)
(* wilder_sum_excel_style                                                  *)
(***************************************************************************)
\* the loop of lines 24-31, from index i on
RECURSIVE WilderLoop(_, _, _, _)
WilderLoop(res, arr, n, i) ==
    IF i >= Len(arr) THEN res
    ELSE LET prev == At(res, i - 1)
             cur  == IF IsNaN(prev) THEN NaN
                     ELSE FAdd(FSub(prev, FDiv(prev, FromInt(n))), At(arr, i))
         IN  WilderLoop([res EXCEPT ![i + 1] = cur], arr, n, i + 1)

\* A variant that seeds at index n-1 with the sum of arr[0:n].
wilder_sum_seed_before(series, n) ==
    LET blank == [j \in 1..Len(series) |-> NaN]
    IN  IF Len(series) < n THEN blank
        ELSE WilderLoop([blank EXCEPT ![n] = NanSum(series, 0, n)], series, n, n)

\* A variant whose recursion drops prev/(n-1) instead of prev/n.
RECURSIVE WilderLoopWrongDecay(_, _, _, _)
WilderLoopWrongDecay(res, arr, n, i) ==
    IF i >= Len(arr) THEN res
    ELSE LET prev == At(res, i - 1)
             cur  == IF IsNaN(prev) THEN NaN
                     ELSE FAdd(FSub(prev, FDiv(prev, FromInt(n - 1))), At(arr, i))
         IN  WilderLoopWrongDecay([res EXCEPT ![i + 1] = cur], arr, n, i + 1)

wilder_sum_wrong_decay(series, n) ==
    LET blank == [j \in 1..Len(series) |-> NaN]
    IN  IF Len(series) <= n THEN blank
        ELSE WilderLoopWrongDecay([blank EXCEPT ![n + 1] = NanSum(series, 1, n + 1)],
                                  series, n, n + 1)

wilder_sum_excel_style(series, n) ==
    LET blank == [j \in 1..Len(series) |-> NaN]
    IN  IF Len(series) <= n THEN blank
        ELSE WilderLoop([blank EXCEPT ![n + 1] = NanSum(series, 1, n + 1)],
                        series, n, n + 1)

(***************************************************************************)
(* Tables (DataFrame): the column names in order, the cells of each        *)
(* column, and the number of rows.                                         *)
(***************************************************************************)
EmptyDf == [columns |-> <<>>, col |-> <<>>, n |-> 0]

Range(s) == {s[j] : j \in 1..Len(s)}

HasCol(d, name) == name \in Range(d.columns)

\* df[name] = s
SetCol(d, name, s) ==
    [columns |-> IF HasCol(d, name) THEN d.columns ELSE Append(d.columns, name),
     col     |-> [c \in (DOMAIN d.col) \cup {name} |-> IF c = name THEN s ELSE d.col[c]],
     n       |-> d.n]

Map1(F(_), a) == [j \in 1..Len(a) |-> F(a[j])]
Map2(F(_, _), a, b) == [j \in 1..Len(a) |-> F(a[j], b[j])]

\* A variant that leaves the first row as computed.
KeepFirst(s) == s

\* s.iloc[0] = NaN
BlankFirst(s) == [j \in 1..Len(s) |-> IF j = 1 THEN NaN ELSE s[j]]

NoError == [type |-> "none", missing |-> <<>>]

(***************************************************************************)
(* calculate_adx, lines 58-80: copy, detection, renaming, coercion, lags   *)
(***************************************************************************)
\* [k for k, v in ohlc_map.items() if v is None]
MissingKeys(m) == SelectSeq(Keys, LAMBDA key : m[key] = None)

\* the new name of column c under rename(columns={...}): in the dict
\* literal of lines 69-72 a repeated key keeps its last value
Renamed(m, c) ==
    IF c = m.close THEN "Close"
    ELSE IF c = m.low THEN "Low"
    ELSE IF c = m.high THEN "High"
    ELSE IF c = m.open THEN "Open"
    ELSE c

Rename(d, m) ==
    LET newcols == [j \in 1..Len(d.columns) |-> Renamed(m, d.columns[j])]
        Orig(nm) == d.columns[CHOOSE j \in 1..Len(newcols) : newcols[j] = nm]
    IN  [columns |-> newcols,
         col     |-> [nm \in Range(newcols) |-> d.col[Orig(nm)]],
         n       |-> d.n]

OHLC == <<"Open", "High", "Low", "Close">>

\* lines 74-76
Coerce(d) ==
    [d EXCEPT !.col = [c \in DOMAIN d.col |->
                          IF c \in Range(OHLC) THEN Map1(to_numeric, d.col[c]) ELSE d.col[c]]]

\* lines 78-80
AddLags(d) ==
    SetCol(SetCol(SetCol(d, "Prev_Close", Shift1(d.col["Close"])),
                  "Prev_High", Shift1(d.col["High"])),
           "Prev_Low", Shift1(d.col["Low"]))

(***************************************************************************)
(* lines 83-87: True Range                                                 *)
(***************************************************************************)
TR1Of(h, l) == FSub(h, l)
TR2Of(h, pc_) == FAbs(FSub(h, pc_))
TR3Of(l, pc_) == FAbs(FSub(l, pc_))

\* A variant of the row maximum that leaves TR1 out.
RowMaxNoTR1(a, b, c) == [j \in 1..Len(a) |-> FMaxSkipNa(b[j], c[j])]

\* A variant of the row maximum that leaves TR3 out.
RowMaxNoTR3(a, b, c) == [j \in 1..Len(a) |-> FMaxSkipNa(a[j], b[j])]

\* df[['TR1','TR2','TR3']].max(axis=1)
RowMax(a, b, c) == [j \in 1..Len(a) |-> FMaxSkipNa(FMaxSkipNa(a[j], b[j]), c[j])]

TrueRangeCols(d) ==
    LET tr1 == Map2(TR1Of, d.col["High"], d.col["Low"])
        tr2 == Map2(TR2Of, d.col["High"], d.col["Prev_Close"])
        tr3 == Map2(TR3Of, d.col["Low"], d.col["Prev_Close"])
        d1  == SetCol(SetCol(SetCol(d, "TR1", tr1), "TR2", tr2), "TR3", tr3)
    IN  SetCol(d1, "TR", BlankFirst(RowMax(tr1, tr2, tr3)))

(***************************************************************************)
(* lines 90-100: Directional Movement                                      *)
(***************************************************************************)
\* A variant of +DM that does not compare the two moves.
PlusDMNoCompare(up, down) == IF FGt(up, Num(0)) THEN up ELSE Num(0)

\* np.where((UpMove > DownMove) & (UpMove > 0), UpMove, 0.0)
PlusDM(up, down) == IF FGt(up, down) /\ FGt(up, Num(0)) THEN up ELSE Num(0)

\* np.where((DownMove > UpMove) & (DownMove > 0), DownMove, 0.0)
MinusDM(up, down) == IF FGt(down, up) /\ FGt(down, Num(0)) THEN down ELSE Num(0)

DirectionalMovementCols(d) ==
    LET up   == Map2(FSub, d.col["High"], d.col["Prev_High"])
        down == Map2(FSub, d.col["Prev_Low"], d.col["Low"])
        d1   == SetCol(SetCol(d, "UpMove", up), "DownMove", down)
        pdm  == Map2(PlusDM, up, down)
        mdm  == Map2(MinusDM, up, down)
    IN  SetCol(SetCol(d1, "+DM 1", IF d.n >= 1 THEN BlankFirst(pdm) ELSE pdm),
               "-DM 1", IF d.n >= 1 THEN BlankFirst(mdm) ELSE mdm)

(***************************************************************************)
(* lines 104-106: smoothed TR and DM                                       *)
(***************************************************************************)
SmoothCols(d) ==
    SetCol(SetCol(SetCol(d,
        "TR14", wilder_sum_excel_style(FillNa0(d.col["TR"]), N)),
        "+DM14", wilder_sum_excel_style(FillNa0(d.col["+DM 1"]), N)),
        "-DM14", wilder_sum_excel_style(FillNa0(d.col["-DM 1"]), N))

(***************************************************************************)
(* lines 109-116: DI and DX                                                *)
(***************************************************************************)
\* (dm / tr) * 100
DIOf(dm, tr) == FMulInt(FDiv(dm, tr), 100)

\* A variant of the DI difference that keeps its sign.
DiffNoAbs(p, m) == FSub(p, m)

DiffOf(p, m) == FAbs(FSub(p, m))

\* (diff / sum) * 100
\* A variant of DX that is left as a ratio, not a percentage.
DXRawNoPercent(diff, sum) == FDiv(diff, sum)

DXRaw(diff, sum) == FMulInt(FDiv(diff, sum), 100)

\* replace([np.inf, -np.inf, np.nan], 0) on one value
ReplaceInfNaN(x) == IF IsInf(x) \/ IsNaN(x) THEN Num(0) ELSE x

DICols(d) ==
    LET pdi == Map2(DIOf, d.col["+DM14"], d.col["TR14"])
        mdi == Map2(DIOf, d.col["-DM14"], d.col["TR14"])
    IN  SetCol(SetCol(SetCol(SetCol(d, "+DI14", pdi), "-DI14", mdi),
                      "DI 14 Diff", Map2(DiffOf, pdi, mdi)),
               "DI 14 Sum", Map2(FAdd, pdi, mdi))

DXCols(d) ==
    SetCol(d, "DX", Map1(ReplaceInfNaN, Map2(DXRaw, d.col["DI 14 Diff"], d.col["DI 14 Sum"])))

(***************************************************************************)
(* lines 119-134: ADX                                                      *)
(***************************************************************************)
\* Series.mean() of s.iloc[lo:hi]: NaN is skipped
SliceMean(s, lo, hi) ==
    LET cnt == Cardinality({i \in lo..(hi - 1) : i < Len(s) /\ NotNa(At(s, i))})
    IN  IF cnt = 0 THEN NaN ELSE FDiv(NanSum(s, lo, hi), FromInt(cnt))

\* the loop of lines 130-132, from index i on
RECURSIVE ADXLoop(_, _, _)
ADXLoop(adx, dx, i) ==
    IF i >= Len(dx) THEN adx
    ELSE LET prev == At(adx, i - 1)
         IN  ADXLoop([adx EXCEPT ![i + 1] =
                         FDiv(FAdd(FMulInt(prev, N - 1), At(dx, i)), FromInt(N))],
                     dx, i + 1)

\* A variant whose recursion weighs the previous ADX by N instead of N-1.
RECURSIVE ADXLoopWrongWeight(_, _, _)
ADXLoopWrongWeight(adx, dx, i) ==
    IF i >= Len(dx) THEN adx
    ELSE LET prev == At(adx, i - 1)
         IN  ADXLoopWrongWeight([adx EXCEPT ![i + 1] =
                         FDiv(FAdd(FMulInt(prev, N), At(dx, i)), FromInt(N))],
                     dx, i + 1)

ADXSeriesWrongWeight(dx) ==
    LET blank == [j \in 1..Len(dx) |-> NaN]
        end   == 2 * N - 1
    IN  IF Len(dx) > end
        THEN ADXLoopWrongWeight([blank EXCEPT ![end + 1] = SliceMean(dx, N, end + 1)], dx, end + 1)
        ELSE blank

ADXSeries(dx) ==
    LET blank == [j \in 1..Len(dx) |-> NaN]
        start == N
        end   == 2 * N - 1
    IN  IF Len(dx) > end
        THEN ADXLoop([blank EXCEPT ![end + 1] = SliceMean(dx, start, end + 1)], dx, end + 1)
        ELSE blank

(***************************************************************************)
(* lines 140-159: rounding and the output table                            *)
(***************************************************************************)
IsFloat(c) == c.k \in {"num", "nan", "inf"}

\* df[num_cols].round(6): an integer column is unchanged, a text column is
\* not numeric
RoundCols(d) ==
    [d EXCEPT !.col = [c \in DOMAIN d.col |->
        [j \in 1..Len(d.col[c]) |->
            IF IsFloat(d.col[c][j]) THEN RoundFloat(d.col[c][j]) ELSE d.col[c][j]]]]

DigitChars == <<"0", "1", "2", "3", "4", "5", "6", "7", "8", "9">>

RECURSIVE Digits(_)
Digits(x) == IF x < 10 THEN <<DigitChars[x + 1]>>
             ELSE Append(Digits(x \div 10), DigitChars[(x % 10) + 1])

\* the d decimal digits of the fraction f / 10^d, without trailing zeros
RECURSIVE FractionDigits(_, _)
FractionDigits(f, d) ==
    IF d = 0 \/ f = 0 THEN <<>>
    ELSE <<DigitChars[(f \div Pow10(d - 1)) + 1]>> \o FractionDigits(f % Pow10(d - 1), d - 1)

\* str(x) of a float: the shortest decimal text, with at least one decimal
FloatText(a) ==
    IF IsNaN(a) THEN <<"n", "a", "n">>
    ELSE IF IsInf(a) THEN (IF a.v < 0 THEN <<"-", "i", "n", "f">> ELSE <<"i", "n", "f">>)
    ELSE LET m    == Abs(a.v)
             frac == FractionDigits(m % Scale, FracDigits)
         IN  (IF a.v < 0 THEN <<"-">> ELSE <<>>) \o Digits(m \div Scale) \o <<".">>
                 \o (IF frac = <<>> THEN <<"0">> ELSE frac)

\* str(cell) of astype(str)
AsStr(c) ==
    IF c.k = "str" THEN c
    ELSE IF c.k = "int"
         THEN TextCell(IF c.v < 0 THEN <<"-">> \o Digits(-c.v) ELSE Digits(c.v))
         ELSE TextCell(FloatText(c))

DerivedNames == <<"Open", "High", "Low", "Close", "TR", "+DM 1", "-DM 1",
                  "TR14", "+DM14", "-DM14", "+DI14", "-DI14",
                  "DI 14 Diff", "DI 14 Sum", "DX", "ADX">>

\* lines 144-159
OutputTable(d, dc) ==
    LET final   == IF dc # None THEN <<dc>> \o DerivedNames ELSE DerivedNames
        d1      == IF dc # None THEN SetCol(d, dc, Map1(AsStr, d.col[dc])) ELSE d
        present == SelectSeq(final, LAMBDA c : HasCol(d1, c))
    IN  [columns |-> present,
         col     |-> [c \in Range(present) |-> d1.col[c]],
         n       |-> d1.n]

(***************************************************************************)
(* The input tables the model runs calculate_adx on.  A table is drawn     *)
(* from a family of price series: High and Low start at StartPrice and     *)
(* StartPrice - w0 and move by the steps of two alternating moves; Close   *)
(* is the bar's Low or the next bar's High (a close outside the bar); one  *)
(* row may hold text in some of its price cells.                           *)
(***************************************************************************)
\* <<step of High, step of Low>>: up, down, flat, outside bar (tie), outside
\* bar with the larger up move, outside bar with the larger down move
Moves == << <<1, 1>>, <<-1, -1>>, <<0, 0>>, <<1, -1>>, <<2, -1>>, <<1, -2>>, <<2, 2>> >>

\* the steep move <<2, 2>> is paired only with itself
Steep == Len(Moves)

Lens == {0, 1, 2, N, N + 1, 2 * N - 1, 2 * N, 2 * N + 1, 2 * N + 2, MaxRows}

HighAt(p, i) == 10 + ((i + 1) \div 2) * Moves[p.ma][1] + (i \div 2) * Moves[p.mb][1]
LowAt(p, i) == 10 - p.w0 + ((i + 1) \div 2) * Moves[p.ma][2] + (i \div 2) * Moves[p.mb][2]
CloseAt(p, i) == IF p.cm = "low" THEN LowAt(p, i) ELSE HighAt(p, i + 1)

BadText == TextCell(<<"n", "/", "a">>)

\* the cells of the column under header h
ColumnOf(p, h, len) ==
    LET Price(field, F(_, _)) ==
            [j \in 1..len |-> IF j - 1 = p.badrow /\ field \in p.bad
                              THEN BadText ELSE IntCell(F(p, j - 1))]
    IN  CASE h \in {"Open", "OPEN", "o"}       -> Price("O", LowAt)
          [] h \in {"High", "h", "DayHigh", "DAYHIGH", "HighLow"} -> Price("H", HighAt)
          [] h \in {"Low", "l", "DayLow"}      -> Price("L", LowAt)
          [] h \in {"Close", "c", "AdjClose"}  -> Price("C", CloseAt)
          [] h \in {"Date", "TR"} -> [j \in 1..len |-> TextCell(<<"d">> \o Digits(j - 1))]
          [] h = "Time"   -> [j \in 1..len |->
                                 FloatCell(j * Scale + 5 * Pow10(FracDigits - RoundDigits - 1))]
          [] h = "Volume" -> [j \in 1..len |-> IntCell(100 + j)]

MakeInput(p, layout, len) ==
    [columns |-> layout,
     col     |-> [h \in Range(layout) |-> ColumnOf(p, h, len)],
     n       |-> len]

Plain == <<"Date", "Open", "High", "Low", "Close">>

Layouts == {<<"Open", "High", "Low", "Close">>,
            <<"o", "h", "l", "c", "Volume">>,
            <<"Volume", "Close", "DayLow", "DayHigh", "OPEN">>,
            <<"Date", "Open", "High">>,
            <<"Time", "Open", "High", "Low", "Close">>,
            <<"TR", "Open", "High", "Low", "Close">>,
            <<"Date", "DayHigh", "Open", "High", "Low", "Close">>,
            <<"DayLow", "o", "h", "l", "c">>,
            <<"Date", "Open", "DayHigh", "Low", "Close", "DAYHIGH">>,
            <<"Date", "Open", "HighLow", "Close">>,
            <<"Date", "Volume">>}

NumericSeries ==
    {p \in [ma : 1..Len(Moves), mb : 1..Len(Moves), w0 : {-1, 0, 1}, cm : {"low", "gap"},
             bad : {{}}, badrow : {0}] : (p.ma = Steep) = (p.mb = Steep)}

TextSeries ==
    [ma : {1}, mb : {2}, w0 : {1}, cm : {"low"},
     bad : {{"H"}, {"H", "L"}, {"C"}, {"H", "L", "C"}}, badrow : {0, 2, N + 2}]

BaseSeries == [ma |-> 1, mb |-> 2, w0 |-> 1, cm |-> "low", bad |-> {}, badrow |-> 0]

Inputs ==
    {MakeInput(p, Plain, len) : p \in NumericSeries \cup TextSeries, len \in Lens}
    \cup {MakeInput(BaseSeries, layout, len) : layout \in Layouts, len \in Lens}

(***************************************************************************)
(* calculate_adx as a sequence of steps; pc is the step to run next.       *)
(***************************************************************************)
\* request.session without, and with, the key 'csv_output'
NoSession == [has |-> FALSE, csv |-> <<>>]
Stored(csv) == [has |-> TRUE, csv |-> csv]

Init ==
    /\ input_df \in Inputs
    /\ df = EmptyDf
    /\ pc = "start"
    /\ ohlc_map = [open |-> None, high |-> None, low |-> None, close |-> None]
    /\ date_col = None
    /\ result = EmptyDf
    /\ error = NoError
    /\ session = NoSession
    /\ log = <<>>

\* A variant in which the working table is the caller's table itself.
CallerTableAliased(caller, work) == work

\* line 58: df is input_df.copy(), and rename, df[present] return new tables;
\* what is written to the working table does not reach the caller's table
CallerTable(caller, work) == caller

Raise(type, missing) ==
    /\ pc' = "raised"
    /\ error' = [type |-> type, missing |-> missing]
    /\ UNCHANGED result

\* lines 58-64
Detect ==
    /\ pc = "start"
    /\ LET m == detect_ohlc_columns(input_df.columns)
       IN  /\ ohlc_map' = m
           /\ df' = input_df
           /\ UNCHANGED date_col
           /\ IF MissingKeys(m) # <<>>
              THEN Raise("ValueError", MissingKeys(m))
              ELSE pc' = "detected" /\ UNCHANGED <<result, error>>
    /\ input_df' = CallerTable(input_df, df')
    /\ UNCHANGED web

\* lines 66-80
Prepare ==
    /\ pc = "detected"
    /\ LET first_col == df.columns[1]
           renamed   == Rename(df, ohlc_map)
       IN  /\ date_col' = IF first_col \notin {ohlc_map[key] : key \in Range(Keys)}
                          THEN first_col ELSE None
           /\ UNCHANGED ohlc_map
           /\ IF \E c \in Range(OHLC) : ~HasCol(renamed, c)
              THEN df' = renamed /\ Raise("KeyError", <<>>)
              ELSE /\ df' = AddLags(Coerce(renamed))
                   /\ pc' = "prepared"
                   /\ UNCHANGED <<result, error>>
    /\ input_df' = CallerTable(input_df, df')
    /\ UNCHANGED web

\* lines 83-87; df.index[0] of an empty table raises
TrueRange ==
    /\ pc = "prepared"
    /\ UNCHANGED <<ohlc_map, date_col>>
    /\ IF df.n = 0
       THEN UNCHANGED df /\ Raise("IndexError", <<>>)
       ELSE /\ df' = TrueRangeCols(df)
            /\ pc' = "tr"
            /\ UNCHANGED <<result, error>>
    /\ input_df' = CallerTable(input_df, df')
    /\ UNCHANGED web

\* lines 90-100
DirectionalMovement ==
    /\ pc = "tr"
    /\ df' = DirectionalMovementCols(df)
    /\ pc' = "dm"
    /\ UNCHANGED <<ohlc_map, date_col, result, error>>
    /\ input_df' = CallerTable(input_df, df')
    /\ UNCHANGED web

\* lines 104-106
Smooth ==
    /\ pc = "dm"
    /\ df' = SmoothCols(df)
    /\ pc' = "smoothed"
    /\ UNCHANGED <<ohlc_map, date_col, result, error>>
    /\ input_df' = CallerTable(input_df, df')
    /\ UNCHANGED web

\* lines 109-113
DirectionalIndex ==
    /\ pc = "smoothed"
    /\ df' = DICols(df)
    /\ pc' = "di"
    /\ UNCHANGED <<ohlc_map, date_col, result, error>>
    /\ input_df' = CallerTable(input_df, df')
    /\ UNCHANGED web

\* lines 115-116
DirectionalIndexDX ==
    /\ pc = "di"
    /\ df' = DXCols(df)
    /\ pc' = "dx"
    /\ UNCHANGED <<ohlc_map, date_col, result, error>>
    /\ input_df' = CallerTable(input_df, df')
    /\ UNCHANGED web

\* lines 119-134
AverageDX ==
    /\ pc = "dx"
    /\ df' = SetCol(df, "ADX", ADXSeries(df.col["DX"]))
    /\ pc' = "adx"
    /\ UNCHANGED <<ohlc_map, date_col, result, error>>
    /\ input_df' = CallerTable(input_df, df')
    /\ UNCHANGED web

\* lines 140-141
Round ==
    /\ pc = "adx"
    /\ df' = RoundCols(df)
    /\ pc' = "rounded"
    /\ UNCHANGED <<ohlc_map, date_col, result, error>>
    /\ input_df' = CallerTable(input_df, df')
    /\ UNCHANGED web

\* lines 144-159
Output ==
    /\ pc = "rounded"
    /\ result' = OutputTable(df, date_col)
    /\ df' = IF date_col # None THEN SetCol(df, date_col, Map1(AsStr, df.col[date_col])) ELSE df
    /\ pc' = "done"
    /\ UNCHANGED <<ohlc_map, date_col, error>>
    /\ input_df' = CallerTable(input_df, df')
    /\ UNCHANGED web

Next ==
    \/ Detect
    \/ Prepare
    \/ TrueRange
    \/ DirectionalMovement
    \/ Smooth
    \/ DirectionalIndex
    \/ DirectionalIndexDX
    \/ AverageDX
    \/ Round
    \/ Output

Spec == Init /\ [][Next]_vars

(***************************************************************************)
(* calculate_adx as one function of the caller's table: the steps above,   *)
(* composed (lines 56-159).                                                *)
(***************************************************************************)
calculate_adx(inp) ==
    LET m       == detect_ohlc_columns(inp.columns)
        first   == inp.columns[1]
        dc      == IF first \notin {m[key] : key \in Range(Keys)} THEN first ELSE None
        renamed == Rename(inp, m)
        dx      == DXCols(DICols(SmoothCols(DirectionalMovementCols(
                       TrueRangeCols(AddLags(Coerce(renamed)))))))
        adx     == SetCol(dx, "ADX", ADXSeries(dx.col["DX"]))
    IN  IF MissingKeys(m) # <<>>
        THEN [error |-> [type |-> "ValueError", missing |-> MissingKeys(m)], table |-> EmptyDf]
        ELSE IF \E c \in Range(OHLC) : ~HasCol(renamed, c)
        THEN [error |-> [type |-> "KeyError", missing |-> <<>>], table |-> EmptyDf]
        ELSE IF inp.n = 0
        THEN [error |-> [type |-> "IndexError", missing |-> <<>>], table |-> EmptyDf]
        ELSE [error |-> NoError, table |-> OutputTable(RoundCols(adx), dc)]

(***************************************************************************)
(* The views: process_file and download_csv over one session               *)
(* (views.py lines 15-75). A request is handled in one step; the run of    *)
(* calculate_adx inside it is the function calculate_adx.                  *)
(***************************************************************************)
MaxRequests == 3

\* result_df.to_csv(index=False): the header line and one line per row, each
\* a sequence of fields; an undefined cell is an empty field
CsvField(c) ==
    IF c.k = "str" THEN c.s
    ELSE IF c.k = "nan" THEN <<>>
    ELSE IF c.k = "int" THEN Digits(c.v)
    ELSE FloatText(c)

to_csv(t) ==
    <<[j \in 1..Len(t.columns) |-> Chars(t.columns[j])]>>
        \o [i \in 1..t.n |-> [j \in 1..Len(t.columns) |-> CsvField(t.col[t.columns[j]][i])]]

\* request.FILES: no csv_file, an empty file, or a file holding a table
NoFile == [kind |-> "none", table |-> EmptyDf]
EmptyFile == [kind |-> "empty", table |-> EmptyDf]
CsvFile(t) == [kind |-> "csv", table |-> t]

\* pd.read_csv followed by calculate_adx (lines 30-32); an empty file makes
\* read_csv raise
ReadAndCalculate(file) ==
    IF file.kind = "csv" THEN calculate_adx(file.table)
    ELSE [error |-> [type |-> "EmptyDataError", missing |-> <<>>], table |-> EmptyDf]

Page(name, err) == [status |-> 200, page |-> name, error |-> err, body |-> <<>>]

\* A variant of process_file that stores the output before it looks at the
\* outcome of the computation.
process_file_store_always(req, sess) ==
    IF req.method # "POST" THEN [session |-> sess, response |-> Page("index", "")]
    ELSE IF req.file.kind = "none"
    THEN [session |-> sess, response |-> Page("index", "Please upload a CSV file.")]
    ELSE LET r == ReadAndCalculate(req.file)
         IN  [session  |-> Stored(to_csv(r.table)),
              response |-> IF r.error # NoError
                           THEN Page("index", "Error processing file") ELSE Page("result", "")]

\* A variant of process_file that keeps a CSV already stored in the session.
process_file_keep_first(req, sess) ==
    IF req.method # "POST" THEN [session |-> sess, response |-> Page("index", "")]
    ELSE IF req.file.kind = "none"
    THEN [session |-> sess, response |-> Page("index", "Please upload a CSV file.")]
    ELSE LET r == ReadAndCalculate(req.file)
         IN  IF r.error # NoError
             THEN [session |-> sess, response |-> Page("index", "Error processing file")]
             ELSE [session  |-> IF sess.has THEN sess ELSE Stored(to_csv(r.table)),
                   response |-> Page("result", "")]

\* views.py lines 19-66: the session after the request and the response
process_file(req, sess) ==
    IF req.method # "POST" THEN [session |-> sess, response |-> Page("index", "")]
    ELSE IF req.file.kind = "none"
    THEN [session |-> sess, response |-> Page("index", "Please upload a CSV file.")]
    ELSE LET r == ReadAndCalculate(req.file)
         IN  IF r.error # NoError
             THEN [session |-> sess, response |-> Page("index", "Error processing file")]
             ELSE [session |-> Stored(to_csv(r.table)), response |-> Page("result", "")]

\* views.py lines 69-75
download_csv(sess) ==
    IF ~sess.has \/ sess.csv = <<>>
    THEN [status |-> 400, page |-> "", error |-> "No output to download.", body |-> <<>>]
    ELSE [status |-> 200, page |-> "", error |-> "", body |-> sess.csv]

\* the uploads of the session model
SessionTables ==
    {MakeInput(BaseSeries, Plain, len) : len \in {0, 1, 2}}
        \cup {MakeInput(BaseSeries, <<"Date", "Volume">>, 1)}

ProcessRequests ==
    {[view |-> "process_file", method |-> "GET", file |-> NoFile]}
        \cup {[view |-> "process_file", method |-> "POST", file |-> f] :
                 f \in {NoFile, EmptyFile} \cup {CsvFile(t) : t \in SessionTables}}

SessionInit ==
    /\ input_df = EmptyDf
    /\ df = EmptyDf
    /\ pc = "idle"
    /\ ohlc_map = [open |-> None, high |-> None, low |-> None, close |-> None]
    /\ date_col = None
    /\ result = EmptyDf
    /\ error = NoError
    /\ session = NoSession
    /\ log = <<>>

\* views.py lines 15-16
Index ==
    /\ Len(log) < MaxRequests
    /\ log' = Append(log, [request  |-> [view |-> "index", method |-> "GET", file |-> NoFile],
                           response |-> Page("index", "")])
    /\ UNCHANGED session
    /\ UNCHANGED calc

ProcessFile ==
    /\ Len(log) < MaxRequests
    /\ \E req \in ProcessRequests :
           LET out == process_file(req, session)
           IN  /\ session' = out.session
               /\ log' = Append(log, [request |-> req, response |-> out.response])
    /\ UNCHANGED calc

DownloadCsv ==
    /\ Len(log) < MaxRequests
    /\ log' = Append(log, [request  |-> [view |-> "download_csv", method |-> "GET", file |-> NoFile],
                           response |-> download_csv(session)])
    /\ UNCHANGED session
    /\ UNCHANGED calc

SessionNext ==
    \/ Index
    \/ ProcessFile
    \/ DownloadCsv

SessionSpec == SessionInit /\ [][SessionNext]_vars

(***************************************************************************)
(* Properties                                                              *)
(***************************************************************************)
\* the steps after which a column exists and holds the computed series as
\* numbers, unrounded up to "adx" and rounded in "rounded" (the output step
\* renders the label column as text, whatever its header)
AfterTR == {"tr", "dm", "smoothed", "di", "dx", "adx", "rounded"}
AfterDM == AfterTR \ {"tr"}
AfterSmooth == AfterDM \ {"dm"}
AfterDI == AfterSmooth \ {"smoothed"}
AfterDX == AfterDI \ {"di"}
Unrounded == {"tr", "dm", "smoothed", "di", "dx", "adx"}

Rows == 0..(df.n - 1)

Col(name) == df.col[name]

\* the raw and the smoothed column of each smoothed series
SmoothedPairs == {<<"TR", "TR14">>, <<"+DM 1", "+DM14">>, <<"-DM 1", "-DM14">>}

\* the caller's cell of a price field (key of ohlc_map) at row i
InCell(key, i) == At(input_df.col[ohlc_map[key]], i)
Numeric(key, i) == InCell(key, i).k = "int"
InVal(key, i) == InCell(key, i).v

Max2(a, b) == IF a >= b THEN a ELSE b

Nonzero(x) == NotNa(x) /\ x # Num(0)

DXWindow == N..(2 * N - 1)

\* C2 as stated: ADX is undefined below index 27 (everywhere when there are
\* fewer than 28 rows); with 28 rows or more ADX[27] is the mean of
\* DX[14..27], these are the first 14 defined DX values, ADX is defined from
\* index 27 on, and a constant DX = V on 14..27 gives ADX[27] = V.
C2_ADXSeed ==
    pc = "adx" =>
        /\ \A i \in Rows : i < 2 * N - 1 => IsNaN(At(Col("ADX"), i))
        /\ df.n >= 2 * N =>
            /\ At(Col("ADX"), 2 * N - 1) = FDiv(NanSum(Col("DX"), N, 2 * N), FromInt(N))
            /\ \A i \in Rows : i < N => IsNaN(At(Col("DX"), i))
            /\ \A i \in DXWindow : NotNa(At(Col("DX"), i))
            /\ \A i \in Rows : i >= 2 * N - 1 => NotNa(At(Col("ADX"), i))
            /\ (\A i \in DXWindow : At(Col("DX"), i) = At(Col("DX"), N))
                   => At(Col("ADX"), 2 * N - 1) = At(Col("DX"), N)

C4_ADXRecursion ==
    pc = "adx" =>
        \A i \in Rows : i > 2 * N - 1 =>
            At(Col("ADX"), i) =
                FDiv(FAdd(FMulInt(At(Col("ADX"), i - 1), 13), At(Col("DX"), i)),
                     FromInt(14))

C4_Witness ==
    /\ pc = "adx"
    /\ df.n > 2 * N + 1
    /\ IsNum(At(Col("ADX"), 2 * N))
    /\ At(Col("ADX"), 2 * N) # At(Col("ADX"), 2 * N - 1)
    /\ At(Col("ADX"), 2 * N + 1) # At(Col("ADX"), 2 * N)

\* The parts of C2 other than "DX[14..27] are the first 14 defined DX
\* values": the seed index, the seed value and the definedness of ADX.
ADXSeedMean ==
    pc = "adx" =>
        /\ \A i \in Rows : i < 2 * N - 1 => IsNaN(At(Col("ADX"), i))
        /\ df.n >= 2 * N =>
            /\ At(Col("ADX"), 2 * N - 1) = FDiv(NanSum(Col("DX"), N, 2 * N), FromInt(N))
            /\ \A i \in DXWindow : NotNa(At(Col("DX"), i))
            /\ \A i \in Rows : i >= 2 * N - 1 => NotNa(At(Col("ADX"), i))
            /\ (\A i \in DXWindow : At(Col("DX"), i) = At(Col("DX"), N))
                   => At(Col("ADX"), 2 * N - 1) = At(Col("DX"), N)

\* max(High[i]-Low[i], |High[i]-Close[i-1]|, |Low[i]-Close[i-1]|) on the
\* caller's numbers
TRExpected(i) ==
    Max2(Max2(InVal("high", i) - InVal("low", i),
              Abs(InVal("high", i) - InVal("close", i - 1))),
         Abs(InVal("low", i) - InVal("close", i - 1)))

\* C5: TR[0] is undefined, and for every row i > 0 with numeric High[i],
\* Low[i] and Close[i-1], TR[i] is the maximum of the three ranges.
C5_TrueRange ==
    pc \in AfterTR =>
        /\ IsNaN(At(Col("TR"), 0))
        /\ \A i \in Rows :
              (i > 0 /\ Numeric("high", i) /\ Numeric("low", i) /\ Numeric("close", i - 1))
                  => At(Col("TR"), i) = FromInt(TRExpected(i))

C5_Witness ==
    /\ pc = "tr"
    /\ \E i \in Rows :
          /\ i > 0 /\ Numeric("high", i) /\ Numeric("low", i) /\ Numeric("close", i - 1)
          /\ Abs(InVal("low", i) - InVal("close", i - 1)) > InVal("high", i) - InVal("low", i)
          /\ Abs(InVal("low", i) - InVal("close", i - 1))
                 > Abs(InVal("high", i) - InVal("close", i - 1))
          /\ At(Col("TR"), i) = FromInt(Abs(InVal("low", i) - InVal("close", i - 1)))

\* UpMove and DownMove of row i > 0 on the caller's cells (undefined when a
\* cell is not a number)
UpMoveIn(i) ==
    IF Numeric("high", i) /\ Numeric("high", i - 1)
    THEN FromInt(InVal("high", i) - InVal("high", i - 1)) ELSE NaN
DownMoveIn(i) ==
    IF Numeric("low", i) /\ Numeric("low", i - 1)
    THEN FromInt(InVal("low", i - 1) - InVal("low", i)) ELSE NaN

\* C6: for every row i > 0, +DM(1)[i] is UpMove if UpMove > DownMove and
\* UpMove > 0, else 0; -DM(1)[i] is DownMove if DownMove > UpMove and
\* DownMove > 0, else 0.
C6_DirectionalMovement ==
    pc \in AfterDM =>
        \A i \in Rows : i > 0 =>
            /\ At(Col("+DM 1"), i) =
                  (IF FGt(UpMoveIn(i), DownMoveIn(i)) /\ FGt(UpMoveIn(i), Num(0))
                   THEN UpMoveIn(i) ELSE Num(0))
            /\ At(Col("-DM 1"), i) =
                  (IF FGt(DownMoveIn(i), UpMoveIn(i)) /\ FGt(DownMoveIn(i), Num(0))
                   THEN DownMoveIn(i) ELSE Num(0))

C6_Witness ==
    /\ pc = "dm"
    /\ \E i, j \in Rows :
          /\ i > 0 /\ Nonzero(At(Col("+DM 1"), i))
          /\ j > 0 /\ Nonzero(At(Col("-DM 1"), j))
          /\ FGt(UpMoveIn(j), Num(0)) /\ At(Col("+DM 1"), j) = Num(0)

\* at most one of the two DM cells of row i of table d is nonzero, and both
\* are 0 when UpMove equals DownMove
ExclusiveDM(d, i) ==
    /\ ~(Nonzero(At(d.col["+DM 1"], i)) /\ Nonzero(At(d.col["-DM 1"], i)))
    /\ (i > 0 /\ NotNa(UpMoveIn(i)) /\ UpMoveIn(i) = DownMoveIn(i))
           => (At(d.col["+DM 1"], i) = Num(0) /\ At(d.col["-DM 1"], i) = Num(0))

\* C7: in every row at most one of +DM(1) and -DM(1) is nonzero, and both
\* are 0 when UpMove equals DownMove.
C7_MutualExclusion ==
    /\ pc \in AfterDM => \A i \in Rows : ExclusiveDM(df, i)
    /\ pc = "done" => \A i \in 0..(result.n - 1) : ExclusiveDM(result, i)

C7_Witness ==
    /\ pc = "done"
    /\ \E i, j \in 0..(result.n - 1) :
          /\ i > 0 /\ UpMoveIn(i) = DownMoveIn(i) /\ FGt(UpMoveIn(i), Num(0))
          /\ Nonzero(At(result.col["+DM 1"], j))

RawNames == {"TR", "+DM 1", "-DM 1"}

\* C8 as stated: row 0 of TR, +DM(1), -DM(1) is undefined and every later
\* row of the three is defined, for every input.
C8_LaterRowsDefined ==
    pc \in AfterDM =>
        \A c \in RawNames : \A i \in Rows :
            IF i = 0 THEN IsNaN(At(Col(c), i)) ELSE NotNa(At(Col(c), i))

\* the number of cells among High[i], Low[i], Close[i-1] that are not numbers
NonNumeric(i) ==
    Cardinality({x \in {<<"high", i>>, <<"low", i>>, <<"close", i - 1>>} :
                    ~Numeric(x[1], x[2])})

\* C8 amended: row 0 of TR, +DM(1), -DM(1) is undefined; every later row has
\* a defined +DM(1) and -DM(1), and its TR is defined exactly when at most
\* one of High[i], Low[i], Close[i-1] is not a number.
C8_FirstRowBlank ==
    pc \in AfterDM =>
        \A i \in Rows :
            IF i = 0
            THEN \A c \in RawNames : IsNaN(At(Col(c), i))
            ELSE /\ IsNum(At(Col("+DM 1"), i))
                 /\ IsNum(At(Col("-DM 1"), i))
                 /\ IsNum(At(Col("TR"), i)) <=> NonNumeric(i) <= 1

C8_Witness ==
    /\ pc = "dm"
    /\ df.n > 2
    /\ At(Col("UpMove"), 1) # NaN
    /\ IsNaN(At(Col("+DM 1"), 0))
    /\ \E i \in Rows : i > 0 /\ IsNaN(At(Col("TR"), i))
    /\ \E i \in Rows : i > 0 /\ NonNumeric(i) = 1 /\ IsNum(At(Col("TR"), i))

\* C9: wherever TR14 is defined and 0, +DI14 and -DI14 are 0.
C9_ZeroTR14 ==
    pc \in AfterDI =>
        \A i \in Rows : At(Col("TR14"), i) = Num(0) =>
            (At(Col("+DI14"), i) = Num(0) /\ At(Col("-DI14"), i) = Num(0))

\* C10: wherever +DI14 and -DI14 are defined, DI-diff is |+DI14 - -DI14|,
\* DI-sum is +DI14 + -DI14, and DX is 100 * DI-diff / DI-sum when DI-sum is
\* nonzero and 0 when DI-sum is 0.
C10_DX ==
    pc \in {"dx", "adx"} =>
        \A i \in Rows :
            (NotNa(At(Col("+DI14"), i)) /\ NotNa(At(Col("-DI14"), i))) =>
                /\ At(Col("DI 14 Diff"), i)
                      = FAbs(FSub(At(Col("+DI14"), i), At(Col("-DI14"), i)))
                /\ At(Col("DI 14 Sum"), i)
                      = FAdd(At(Col("+DI14"), i), At(Col("-DI14"), i))
                /\ At(Col("DX"), i) =
                      (IF At(Col("DI 14 Sum"), i) = Num(0) THEN Num(0)
                       ELSE FMulInt(FDiv(At(Col("DI 14 Diff"), i), At(Col("DI 14 Sum"), i)), 100))

\* The formulas of C10 at the rows whose +DI14 and -DI14 are finite numbers.
DXFormulaFinite ==
    pc \in {"dx", "adx"} =>
        \A i \in Rows :
            (IsNum(At(Col("+DI14"), i)) /\ IsNum(At(Col("-DI14"), i))) =>
                /\ At(Col("DI 14 Diff"), i)
                      = FAbs(FSub(At(Col("+DI14"), i), At(Col("-DI14"), i)))
                /\ At(Col("DI 14 Sum"), i)
                      = FAdd(At(Col("+DI14"), i), At(Col("-DI14"), i))
                /\ At(Col("DX"), i) =
                      (IF At(Col("DI 14 Sum"), i) = Num(0) THEN Num(0)
                       ELSE FMulInt(FDiv(At(Col("DI 14 Diff"), i), At(Col("DI 14 Sum"), i)), 100))

(***************************************************************************)
(* Row count, errors and the missing-column check.                         *)
(***************************************************************************)
\* the canonical column of each price field
Canonical == [open |-> "Open", high |-> "High", low |-> "Low", close |-> "Close"]

\* the rows of the output are the caller's rows, in the caller's order
SameRows ==
    /\ result.n = input_df.n
    /\ \A key \in Range(Keys) : \A i \in 0..(input_df.n - 1) :
           At(result.col[Canonical[key]], i) = RoundFloat(to_numeric(InCell(key, i)))

\* C11 as stated: every input whose four price columns are found, of any
\* number of rows (0, 1, fewer than 14, fewer than 28 included), has an
\* output table with exactly the input's rows, in the input's order.
C11_RowCount ==
    (pc \in {"done", "raised"} /\ MissingKeys(ohlc_map) = <<>>) =>
        (pc = "done" /\ SameRows)

\* a header names the field: it is the field's word or its first letter (in
\* any case), or it contains the field's word
Identifiable(key) ==
    LET word == StrLower(Chars(Canonical[key]))
    IN  \E j \in 1..Len(input_df.columns) :
            LET l == StrLower(Chars(input_df.columns[j]))
            IN  l = word \/ l = <<word[1]>> \/ Contains(l, word)

Unidentified == SelectSeq(Keys, LAMBDA key : ~Identifiable(key))

\* C12: when a price field is named by no header the run fails with the
\* missing-column error, which names exactly the missing fields; no derived
\* column has been built and there is no output table, not even a partial
\* one. With every field named there is no missing-column error.
C12_MissingColumns ==
    pc # "start" =>
        IF Unidentified # <<>>
        THEN /\ pc = "raised"
             /\ error = [type |-> "ValueError", missing |-> Unidentified]
             /\ df = input_df
             /\ result = EmptyDf
        ELSE ~(pc = "raised" /\ error.type = "ValueError")

C12_Witness ==
    /\ pc = "raised"
    /\ error = [type |-> "ValueError", missing |-> <<"low", "close">>]
    /\ input_df.n > 0

\* C13 as stated: the missing-column error is the only error; with the four
\* price columns found the run completes, for any number of rows, and returns
\* a table with every output column.
C13_OnlyMissingColumnError ==
    /\ pc = "raised" => (error.type = "ValueError" /\ Unidentified # <<>>)
    /\ pc = "done" => \A c \in Range(DerivedNames) : HasCol(result, c)

(***************************************************************************)
(* Non-numeric cells.                                                      *)
(***************************************************************************)
\* C14 as stated: a non-numeric price cell never aborts the run, and every
\* derived value with an undefined operand is undefined: TR[i] when High[i],
\* Low[i] or Close[i-1] is not a number, +DM(1)[i] and -DM(1)[i] when High or
\* Low of row i or i-1 is not a number, a smoothed sum when a raw value it
\* was summed from is undefined, DI when its smoothed sums are undefined, DX
\* when a DI is undefined, ADX when the DX or ADX it is computed from is
\* undefined.
C14_UndefinedPropagates ==
    /\ pc = "raised" => input_df.n = 0 \/ error.type = "ValueError"
    /\ pc = "adx" =>
        \A i \in Rows : i > 0 =>
            /\ NonNumeric(i) > 0 => IsNaN(At(Col("TR"), i))
            /\ (\E x \in {"high", "low"} : \E j \in {i - 1, i} : ~Numeric(x, j))
                   => (IsNaN(At(Col("+DM 1"), i)) /\ IsNaN(At(Col("-DM 1"), i)))
            /\ \A pr \in SmoothedPairs :
                   (i >= N /\ \E j \in 1..i : IsNaN(At(Col(pr[1]), j)))
                       => IsNaN(At(Col(pr[2]), i))
            /\ (IsNaN(At(Col("TR14"), i)) \/ IsNaN(At(Col("+DM14"), i)))
                   => IsNaN(At(Col("+DI14"), i))
            /\ (IsNaN(At(Col("TR14"), i)) \/ IsNaN(At(Col("-DM14"), i)))
                   => IsNaN(At(Col("-DI14"), i))
            /\ (IsNaN(At(Col("+DI14"), i)) \/ IsNaN(At(Col("-DI14"), i)))
                   => IsNaN(At(Col("DX"), i))
            /\ (i > 2 * N - 1 /\ (IsNaN(At(Col("DX"), i)) \/ IsNaN(At(Col("ADX"), i - 1))))
                   => IsNaN(At(Col("ADX"), i))

(***************************************************************************)
(* Worked scenarios.                                                       *)
(***************************************************************************)
\* High and Low are numbers that each rise by exactly 1 per row, with
\* High - Low = 1 on every row
SteadyUptrend ==
    \A i \in Rows :
        /\ Numeric("high", i) /\ Numeric("low", i)
        /\ InVal("high", i) - InVal("low", i) = 1
        /\ i > 0 => /\ InVal("high", i) = InVal("high", i - 1) + 1
                    /\ InVal("low", i) = InVal("low", i - 1) + 1

\* C15: on a series whose High and Low each rise by exactly 1 per row with
\* High - Low = 1 (30 rows in the claim), -DM(1) is 0 on every row after the
\* first, DX is 100 at every index from 14 on, and ADX[27] and ADX[28] are
\* 100.
C15_SteadyUptrend ==
    (pc \in {"adx", "rounded", "done"} /\ SteadyUptrend) =>
        \A i \in Rows :
            /\ i > 0 => At(Col("-DM 1"), i) = FromInt(0)
            /\ i >= N => At(Col("DX"), i) = FromInt(100)
            /\ i \in {2 * N - 1, 2 * N} => At(Col("ADX"), i) = FromInt(100)

C15_Witness ==
    /\ pc = "done"
    /\ SteadyUptrend
    /\ result.n = 2 * N + 2
    /\ At(result.col["-DM 1"], 1) = FromInt(0)
    /\ At(result.col["DX"], N) = FromInt(100)
    /\ At(result.col["ADX"], 2 * N - 1) = FromInt(100)
    /\ At(result.col["ADX"], 2 * N) = FromInt(100)

\* the raw TR values at indices lo..hi all equal the number TR[1]
ConstantTR(lo, hi) ==
    /\ df.n > hi
    /\ IsNum(At(Col("TR"), 1))
    /\ \A i \in lo..hi : At(Col("TR"), i) = At(Col("TR"), 1)

Identified == {ohlc_map[key] : key \in Range(Keys)}

\* the caller's first header, when it is not one of the price columns
LabelHeader ==
    IF input_df.columns[1] \in Identified THEN <<>> ELSE <<input_df.columns[1]>>

\* C18 as stated: a first column that is not one of the four price columns is
\* the first output column and each of its cells is the input cell as text,
\* content unchanged, whatever the header and the cell type; with a price
\* column first, the output has no label column.
C18_LabelColumn ==
    pc = "done" =>
        IF LabelHeader # <<>>
        THEN /\ result.columns[1] = LabelHeader[1]
             /\ Len(result.columns) = Len(DerivedNames) + 1
             /\ \A i \in 0..(input_df.n - 1) :
                    At(result.col[LabelHeader[1]], i)
                        = AsStr(At(input_df.col[LabelHeader[1]], i))
        ELSE result.columns = DerivedNames

\* C19 as stated: the output columns are the label column (if there is one)
\* and then Open, High, Low, Close, TR, +DM(1), -DM(1), TR14, +DM14, -DM14,
\* +DI14, -DI14, DI difference, DI sum, DX, ADX, in this order, with no other
\* column and none repeated; extra input columns and helper columns are left
\* out.
C19_OutputColumns ==
    pc = "done" =>
        /\ result.columns = LabelHeader \o DerivedNames
        /\ \A j, k \in 1..Len(result.columns) :
               j # k => result.columns[j] # result.columns[k]

(***************************************************************************)
(* Bounds of the true range.                                               *)
(***************************************************************************)
\* C20: on every row i > 0 whose High[i], Low[i] and Close[i-1] are numbers,
\* TR[i] >= 0 and TR[i] >= High[i] - Low[i], malformed bars (High < Low,
\* previous Close outside the bar) included.
C20_TRLowerBounds ==
    pc \in AfterTR =>
        \A i \in Rows : (i > 0 /\ NonNumeric(i) = 0) =>
            /\ IsNum(At(Col("TR"), i))
            /\ At(Col("TR"), i).v >= 0
            /\ At(Col("TR"), i).v >= (InVal("high", i) - InVal("low", i)) * Scale

C20_Witness ==
    /\ pc = "tr"
    /\ \E i \in Rows : /\ i > 0 /\ NonNumeric(i) = 0
                       /\ InVal("high", i) < InVal("low", i)
                       /\ At(Col("TR"), i).v >= 0
    /\ \E i \in Rows : /\ i > 0 /\ NonNumeric(i) = 0
                       /\ InVal("close", i - 1) < InVal("high", i)
                       /\ InVal("close", i - 1) > InVal("low", i)
                       /\ At(Col("TR"), i).v
                              = (InVal("high", i) - InVal("low", i)) * Scale

Word(key) == StrLower(Chars(Canonical[key]))
LowerOf(j) == StrLower(Chars(input_df.columns[j]))

\* the positions of the headers that equal the word, equal its first letter,
\* contain the word
ExactAt(key) == {j \in 1..Len(input_df.columns) : LowerOf(j) = Word(key)}
AliasAt(key) == {j \in 1..Len(input_df.columns) : LowerOf(j) = <<Word(key)[1]>>}
SubAt(key) == {j \in 1..Len(input_df.columns) : Contains(LowerOf(j), Word(key))}

MinOf(S) == CHOOSE x \in S : \A y \in S : x <= y
MaxOf(S) == CHOOSE x \in S : \A y \in S : x >= y

\* C22 as stated: for each field a header equal to the field's word (in any
\* case) wins; otherwise a header equal to its one-letter alias; otherwise
\* the first header, in header order, that contains the word; otherwise the
\* field is missing. A substring match is never taken when an exact or an
\* alias match exists.
C22_DetectionPriority ==
    pc # "start" =>
        \A key \in Range(Keys) :
            IF ExactAt(key) # {}
            THEN ohlc_map[key] \in {input_df.columns[j] : j \in ExactAt(key)}
            ELSE IF AliasAt(key) # {}
            THEN ohlc_map[key] \in {input_df.columns[j] : j \in AliasAt(key)}
            ELSE IF SubAt(key) # {}
            THEN ohlc_map[key] = input_df.columns[MinOf(SubAt(key))]
            ELSE ohlc_map[key] = None

\* What the code does: the same priority, and among the headers that differ
\* from the chosen one only in letter case the last one is taken.
DetectionPriorityLastCase ==
    pc # "start" =>
        \A key \in Range(Keys) :
            LET SameAs(j) == {i \in 1..Len(input_df.columns) : LowerOf(i) = LowerOf(j)}
            IN  IF ExactAt(key) # {}
                THEN ohlc_map[key] = input_df.columns[MaxOf(ExactAt(key))]
                ELSE IF AliasAt(key) # {}
                THEN ohlc_map[key] = input_df.columns[MaxOf(AliasAt(key))]
                ELSE IF SubAt(key) # {}
                THEN ohlc_map[key] = input_df.columns[MaxOf(SameAs(MinOf(SubAt(key))))]
                ELSE ohlc_map[key] = None

\* C28 as stated: when no field is reported missing, the four fields are
\* mapped to four different input columns, and after the renaming the table
\* has exactly one column for each of Open, High, Low and Close.
C28_DistinctColumns ==
    (pc # "start" /\ MissingKeys(ohlc_map) = <<>>) =>
        /\ Cardinality({ohlc_map[key] : key \in Range(Keys)}) = 4
        /\ pc # "detected" =>
               \A c \in Range(OHLC) :
                   Cardinality({j \in 1..Len(df.columns) : df.columns[j] = c}) = 1

(***************************************************************************)
(* Cells written once, blanks and ranges.                                  *)
(***************************************************************************)
\* the twelve derived columns
ComputedNames == SubSeq(DerivedNames, Len(OHLC) + 1, Len(DerivedNames))

\* C23 as stated: a derived cell that has its value is not overwritten with a
\* different value by a later step of the same computation (a derived column
\* is one the computation adds to the table).
C23_WriteOnce ==
    [][\A c \in Range(ComputedNames) \ Range(input_df.columns) :
           HasCol(df, c) => (HasCol(df', c) /\ df'.col[c] = df.col[c])]_vars

\* C24 as stated: in the output, at every index below the seed index (13 in
\* the claim's reading, so the indices 0..12) and at every index of an input
\* of fewer than 14 rows, TR14, +DM14, -DM14, +DI14, -DI14, DI difference, DI
\* sum and DX are undefined, never 0.
C24_BlankBelowSeed ==
    pc = "done" =>
        \A i \in 0..(result.n - 1) : (i < N - 1 \/ result.n < N) =>
            \A c \in {"TR14", "+DM14", "-DM14", "+DI14", "-DI14",
                      "DI 14 Diff", "DI 14 Sum", "DX"} :
                IsNaN(At(result.col[c], i))

\* every price cell of the input is a number
AllNumeric == \A key \in Range(Keys) : \A i \in Rows : Numeric(key, i)

InPercentRange(x) == IsNum(x) /\ x.v >= 0 /\ x.v <= 100 * Scale

\* C25 as stated: for every numeric input, +DI14 and -DI14 lie in 0..100
\* wherever they are defined.
C25_DIRange ==
    (pc \in AfterDI /\ AllNumeric) =>
        \A i \in Rows : \A c \in {"+DI14", "-DI14"} :
            NotNa(At(Col(c), i)) => InPercentRange(At(Col(c), i))

\* C27: for every numeric input, DX lies in 0..100 on every row and ADX lies
\* in 0..100 wherever it is defined.
C27_DXADXRange ==
    (pc \in AfterDX /\ AllNumeric) =>
        \A i \in Rows :
            /\ InPercentRange(At(Col("DX"), i))
            /\ (pc \in {"adx", "rounded"} /\ NotNa(At(Col("ADX"), i)))
                   => InPercentRange(At(Col("ADX"), i))

C27_Witness ==
    /\ pc = "adx"
    /\ AllNumeric
    /\ df.n > 2 * N
    /\ \E i \in Rows : /\ i >= N
                       /\ At(Col("DX"), i).v > 0
                       /\ At(Col("DX"), i).v < 100 * Scale
    /\ \E i \in Rows : /\ IsNum(At(Col("ADX"), i))
                       /\ At(Col("ADX"), i).v > 0
                       /\ At(Col("ADX"), i).v < 100 * Scale

(***************************************************************************)
(* No look-ahead.                                                          *)
(***************************************************************************)
\* the first k rows of a table
TableHead(t, k) ==
    [columns |-> t.columns,
     col     |-> [h \in DOMAIN t.col |-> SubSeq(t.col[h], 1, k)],
     n       |-> k]

\* the run as a whole is the function calculate_adx of the caller's table
RunIsFunction ==
    /\ pc = "done" => calculate_adx(input_df) = [error |-> NoError, table |-> result]
    /\ pc = "raised" => calculate_adx(input_df) = [error |-> error, table |-> EmptyDf]

\* C26 as stated: for every k <= len(T), calculate_adx on the first k rows of
\* T returns exactly the first k rows of what it returns on T.
C26_NoLookAhead ==
    pc = "done" =>
        \A k \in 0..input_df.n :
            calculate_adx(TableHead(input_df, k))
                = [error |-> NoError, table |-> TableHead(result, k)]

\* The same for the prefixes of at least one row.
NoLookAheadFromOneRow ==
    pc = "done" =>
        \A k \in 1..input_df.n :
            calculate_adx(TableHead(input_df, k))
                = [error |-> NoError, table |-> TableHead(result, k)]

(***************************************************************************)
(* The session: what download_csv returns and when process_file writes.    *)
(***************************************************************************)
\* the process_file requests handled before the last request, and those of
\* them that succeeded (were answered with the result page)
EarlierUploads == {j \in 1..(Len(log) - 1) : log[j].request.view = "process_file"}
EarlierSuccesses == {j \in EarlierUploads : log[j].response.page = "result"}

\* the CSV of the table request j computes
CsvOf(j) == to_csv(ReadAndCalculate(log[j].request.file).table)

LastIsDownload == Len(log) > 0 /\ log[Len(log)].request.view = "download_csv"

\* C29 as stated: download_csv answers 400 exactly when no process_file
\* request of the session has succeeded yet, and otherwise returns the CSV
\* of the table computed by the most recent process_file request.
C29_DownloadMostRecent ==
    LastIsDownload =>
        LET rsp == log[Len(log)].response
        IN  /\ rsp.status = 400 <=> EarlierSuccesses = {}
            /\ EarlierSuccesses # {} =>
                   (rsp.status = 200 /\ rsp.body = CsvOf(MaxOf(EarlierUploads)))

\* C29 amended: ... and otherwise returns the CSV of the table computed by
\* the most recent process_file request that succeeded; a later request that
\* failed does not change what is returned.
C29_DownloadMostRecentSuccess ==
    LastIsDownload =>
        LET rsp == log[Len(log)].response
        IN  /\ rsp.status = 400 <=> EarlierSuccesses = {}
            /\ EarlierSuccesses # {} =>
                   (rsp.status = 200 /\ rsp.body = CsvOf(MaxOf(EarlierSuccesses)))

\* an upload that succeeded, an upload that raised, then a download that
\* returns the CSV of the first
C29_Witness ==
    /\ Len(log) = 3
    /\ LastIsDownload
    /\ EarlierUploads = {1, 2}
    /\ EarlierSuccesses = {1}
    /\ log[2].request.file.kind = "csv"
    /\ log[3].response.status = 200
    /\ log[3].response.body = CsvOf(1)

\* the request is a POST that carries csv_file, and reading the file and
\* calculate_adx both succeed
Succeeds(req) ==
    /\ req.method = "POST"
    /\ req.file.kind # "none"
    /\ ReadAndCalculate(req.file).error = NoError

\* C30: process_file writes the stored CSV only for a POST with csv_file
\* whose reading and computation succeed; a non-POST request, a POST without
\* a file and a request whose computation raises leave the stored CSV as it
\* was and return the upload page, with an error message in the last two
\* cases.
C30_WritesOnlyOnSuccess ==
    [][(Len(log') = Len(log) + 1 /\ log'[Len(log')].request.view = "process_file") =>
          LET req == log'[Len(log')].request
              rsp == log'[Len(log')].response
          IN  /\ session' # session => Succeeds(req)
              /\ ~Succeeds(req) =>
                     /\ session' = session
                     /\ rsp.page = "index"
                     /\ (rsp.error # "") <=> (req.method = "POST")]_vars

\* a stored CSV that survived a POST without a file and an upload that raised
C30_Witness ==
    /\ Len(log) = 3
    /\ log[1].response.page = "result"
    /\ log[2].request = [view |-> "process_file", method |-> "POST", file |-> NoFile]
    /\ log[3].request.view = "process_file" /\ log[3].request.file.kind = "csv"
    /\ log[3].response = Page("index", "Error processing file")
    /\ session = Stored(CsvOf(1))
====
